---- MODULE Spec2Model ----
(***************************************************************************)
(* A model of memegen/domain/image.py: the caption splitter (_split), the  *)
(* font-size search (_maximize_font_size, _optimize_font_size), the        *)
(* rendering pipeline (_generate, _draw_outlined_text) and the derived     *)
(* output path of an Image (Image.path, Image.hash).                       *)
(*                                                                         *)
(* Python strings are sequences of one-character strings.  Python indices  *)
(* are 0-based; the operators below keep the 0-based index of the source   *)
(* and convert where a TLA+ sequence is read.                              *)
(***************************************************************************)
EXTENDS Integers, Sequences, FiniteSets

VARIABLES
    \* ---- _split, called on its own -------------------------------------
    s_text,             \* the argument of _split
    s_result,           \* the tuple it returned
    s_pc,               \* "call" | "returned"
    \* ---- _generate ------------------------------------------------------
    pc,                 \* position in _generate and its callees
    image_size,         \* <<width, height>> after image.thumbnail (l.84)
    font,               \* the font resource (see Fonts)
    top, bottom,        \* the two captions; rebound at l.92 and l.95
    max_font_size,      \* l.89
    min_font_size_single_line,  \* l.90
    max_text_len,       \* l.91
    top_font_size, bottom_font_size,            \* l.92, l.95
    top_text_position, bottom_text_position,    \* l.108, l.113 (in 1/6 pixel)
    which,              \* the caption _optimize_font_size is working for
    o_text,             \* _optimize_font_size: text
    phrases,            \* _optimize_font_size: phrases
    phrase_i,           \* _optimize_font_size: position of the for loop (1-based)
    o_font_size,        \* _optimize_font_size: font_size
    m_text,             \* _maximize_font_size: text
    m_font_size,        \* _maximize_font_size: font_size
    m_width,            \* _maximize_font_size: text_size[0]
    iterations,         \* number of passes through the while body of this call
    draws,              \* the multiline_text calls made on the image, in order
    \* ---- Image.path -----------------------------------------------------
    images              \* the Image objects, by name

vars == <<s_text, s_result, s_pc, pc, image_size, font, top, bottom,
          max_font_size, min_font_size_single_line, max_text_len,
          top_font_size, bottom_font_size, top_text_position,
          bottom_text_position, which, o_text, phrases, phrase_i,
          o_font_size, m_text, m_font_size, m_width, iterations, draws,
          images>>

splitVars == <<s_text, s_result, s_pc>>

renderVars == <<pc, image_size, font, top, bottom, max_font_size,
                min_font_size_single_line, max_text_len, top_font_size,
                bottom_font_size, top_text_position, bottom_text_position,
                which, o_text, phrases, phrase_i, o_font_size, m_text,
                m_font_size, m_width, iterations, draws>>

(***************************************************************************)
(* Bounds of the model.                                                    *)
(***************************************************************************)
\* longest argument given to _split on its own
MaxSplitLen == 5
\* longest caption given to _generate
MaxTextLen == 3

(***************************************************************************)
(* Helpers on Python values.                                               *)
(***************************************************************************)
Abs(n) == IF n < 0 THEN -n ELSE n

Min2(a, b) == IF a < b THEN a ELSE b

Max2(a, b) == IF a > b THEN a ELSE b

Range(seq) == {seq[k] : k \in DOMAIN seq}

\* min(list) of a non-empty list of integers
MinOf(seq) == CHOOSE m \in Range(seq) : \A x \in Range(seq) : m <= x

\* every string over alphabet of length at most n
StringsUpTo(alphabet, n) == UNION {[1..k -> alphabet] : k \in 0..n}

\* text[:j]
Prefix(text, j) == SubSeq(text, 1, j)

\* text[j:]
Suffix(text, j) == SubSeq(text, j + 1, Len(text))

(***************************************************************************)
(* _split (l.177-200).                                                     *)
(***************************************************************************)
\* a variant that tests ' ' in text
CanSplitAnySpace(text) ==
    /\ Len(text) >= 3
    /\ " " \in Range(text)

\* l.192: len(text) >= 3 and ' ' in text[1:-1]
CanSplit(text) ==
    /\ Len(text) >= 3
    /\ " " \in Range(SubSeq(text, 2, Len(text) - 1))

\* l.193: [i for i in range(len(text)) if text[i] == ' '], ascending
SpaceIndices(text) ==
    SelectSeq([k \in 1..Len(text) |-> k - 1], LAMBDA i : text[i + 1] = " ")

\* l.194: [abs(i - len(text) // 2) for i in space_indices]
SpaceProximities(text) ==
    LET space_indices == SpaceIndices(text)
    IN  [k \in DOMAIN space_indices |->
            Abs(space_indices[k] - (Len(text) \div 2))]

\* a variant that keeps the last of several equally close spaces
SplitIndexLast(text) ==
    LET space_indices == SpaceIndices(text)
        space_proximities == SpaceProximities(text)
        k == CHOOSE k \in DOMAIN space_proximities :
                /\ space_proximities[k] = MinOf(space_proximities)
                /\ \A l \in DOMAIN space_proximities :
                      space_proximities[l] = MinOf(space_proximities) => l <= k
    IN  space_indices[k]

\* l.195-198: the j of the first pair (i, j) of the zip with
\* i == min(space_proximities); the loop breaks there
SplitIndex(text) ==
    LET space_indices == SpaceIndices(text)
        space_proximities == SpaceProximities(text)
        k == CHOOSE k \in DOMAIN space_proximities :
                /\ space_proximities[k] = MinOf(space_proximities)
                /\ \A l \in 1..(k - 1) :
                      space_proximities[l] # MinOf(space_proximities)
    IN  space_indices[k]

\* l.197: (text[:j], text[j + 1:])
SplitAt(text, j) == <<Prefix(text, j), Suffix(text, j + 1)>>

\* l.190-200
_split(text) ==
    IF CanSplit(text) THEN SplitAt(text, SplitIndex(text)) ELSE <<text>>

\* '\n'.join(phrases) (l.158), for the one or two phrases _split gives
Join(sep, parts) ==
    IF Len(parts) = 1 THEN parts[1] ELSE parts[1] \o <<sep>> \o parts[2]

(***************************************************************************)
(* The font.  ImageFont.truetype(font, size).getsize(text)[0] is the width *)
(* of text in pixels.  A font is given by the advance of its glyphs, in    *)
(* FontUnits-ths of the font size: 1 is a condensed face (a quarter em per *)
(* character), 4 a wide one (one em per character).  Width grows with the  *)
(* size and with the text.                                                 *)
(***************************************************************************)
FontUnits == 4

Fonts == {1, 4}

\* The pixel size the rasteriser works with when truetype is given a size
\* below 1 and does not raise (see TruetypeRaises): it rounds up to 1.
PixelSize(size) == Max2(1, size)

\* ImageFont.truetype(font, size).getsize(text)[0]   (l.144-145, l.167-168)
getsize(f, text, size) == (PixelSize(size) * Len(text) * f) \div FontUnits

\* text.split('\n'): the lines multiline_textsize measures
Lines(text) ==
    IF \E k \in DOMAIN text : text[k] = "\n"
    THEN LET k == CHOOSE k \in DOMAIN text : text[k] = "\n"
         IN  <<Prefix(text, k - 1), Suffix(text, k)>>
    ELSE <<text>>

\* pixels added between the lines of a multi-line text (Pillow's default)
LineSpacing == 4

\* draw.multiline_textsize(text, font) (l.102-103): the widest line, and the
\* lines stacked with the spacing between them
multiline_textsize(f, text, size) ==
    LET lines == Lines(text)
        widths == [k \in DOMAIN lines |-> getsize(f, lines[k], size)]
    IN  <<-MinOf([k \in DOMAIN widths |-> -widths[k]]),
          Len(lines) * PixelSize(size) + (Len(lines) - 1) * LineSpacing>>

(***************************************************************************)
(* The inputs of _generate: the size of the background after thumbnail,    *)
(* the font and the two captions.                                          *)
(***************************************************************************)
Geometries ==
    {<<20, 60>>, <<24, 60>>, <<30, 60>>, <<40, 60>>, <<40, 4>>, <<80, 250>>}

Captions == StringsUpTo({"a", " "}, MaxTextLen)

\* the fixed margin of l.91, and the divisors of l.89, l.90 and l.127
Margin == 20

MaxFontDivisor == 5

MinFontDivisor == 12

OutlineDivisor == 25

(***************************************************************************)
(* _maximize_font_size (l.163-174) as a function of its arguments, for the *)
(* statements that compare the search with another call of it.  The        *)
(* actions below run the same loop one pass at a time.                     *)
(***************************************************************************)
\* l.169: text_size[0] > max_size and font_size > 1
WhileCondition(width, max_size, font_size) ==
    width > max_size /\ font_size > 1

RECURSIVE MaximizeFrom(_, _, _, _)
MaximizeFrom(f, text, max_size, font_size) ==
    IF WhileCondition(getsize(f, text, font_size), max_size, font_size)
    THEN MaximizeFrom(f, text, max_size, font_size - 1)
    ELSE font_size

_maximize_font_size(f, text, max_size) ==
    MaximizeFrom(f, text, max_size, max_size)

(***************************************************************************)
(* _draw_outlined_text (l.123-136).  Positions are kept in sixths of a     *)
(* pixel, so that image_size[0] / 2 and text height * (7 / 6) stay exact.  *)
(***************************************************************************)
PosUnits == 6

\* l.127
OutlineRange(font_size) == Max2(1, font_size \div OutlineDivisor)

\* l.128-129: the (x, y) of the nested loops over
\* range(-outline_range, outline_range + 1), in the order they run
OutlineOffsets(outline_range) ==
    LET side == 2 * outline_range + 1
    IN  [k \in 1..(side * side) |->
            <<((k - 1) \div side) - outline_range,
              ((k - 1) % side) - outline_range>>]

\* one draw_image.multiline_text call
Draw(caption, text_position, text, fill) ==
    [caption |-> caption, pos |-> text_position, text |-> text, fill |-> fill]

\* a variant that draws the white text first
DrawOutlinedWhiteFirst(caption, text_position, text, font_size) ==
    LET offsets == OutlineOffsets(OutlineRange(font_size))
    IN  <<Draw(caption, text_position, text, "white")>> \o
        [k \in DOMAIN offsets |->
            Draw(caption,
                 <<text_position[1] + PosUnits * offsets[k][1],
                   text_position[2] + PosUnits * offsets[k][2]>>,
                 text, "black")]

\* l.126-136: the calls made, in order
_draw_outlined_text(caption, text_position, text, font_size) ==
    LET offsets == OutlineOffsets(OutlineRange(font_size))
    IN  [k \in DOMAIN offsets |->
            Draw(caption,
                 <<text_position[1] + PosUnits * offsets[k][1],
                   text_position[2] + PosUnits * offsets[k][2]>>,
                 text, "black")]
        \o <<Draw(caption, text_position, text, "white")>>

(***************************************************************************)
(* _generate (l.66-120) and its callees, one step at a time.               *)
(***************************************************************************)
RenderIdle ==
    /\ pc = "idle"
    /\ image_size = <<0, 0>>
    /\ font = 0
    /\ top = <<>>
    /\ bottom = <<>>
    /\ max_font_size = 0
    /\ min_font_size_single_line = 0
    /\ max_text_len = 0
    /\ top_font_size = 0
    /\ bottom_font_size = 0
    /\ top_text_position = <<0, 0>>
    /\ bottom_text_position = <<0, 0>>
    /\ which = "top"
    /\ o_text = <<>>
    /\ phrases = <<>>
    /\ phrase_i = 0
    /\ o_font_size = 0
    /\ m_text = <<>>
    /\ m_font_size = 0
    /\ m_width = 0
    /\ iterations = 0
    /\ draws = <<>>

\* l.89-92: the three limits, then the call of _optimize_font_size for top
GenerateLimits ==
    /\ pc = "generate"
    /\ max_font_size' = image_size[2] \div MaxFontDivisor
    /\ min_font_size_single_line' = image_size[2] \div MinFontDivisor
    /\ max_text_len' = image_size[1] - Margin
    /\ which' = "top"
    /\ o_text' = top
    /\ pc' = "optimize"
    /\ UNCHANGED <<splitVars, images,
                   image_size, font, top, bottom, top_font_size,
                   bottom_font_size, top_text_position, bottom_text_position,
                   phrases, phrase_i, o_font_size, m_text, m_font_size,
                   m_width, iterations, draws>>

\* l.144-152: measure at the smallest single-line size, split if needed,
\* start from max_font_size // len(phrases)
OptimizeSplit ==
    /\ pc = "optimize"
    /\ LET text_size == getsize(font, o_text, min_font_size_single_line)
           split == IF text_size > max_text_len
                    THEN _split(o_text) ELSE <<o_text>>
       IN  /\ phrases' = split
           /\ o_font_size' = max_font_size \div Len(split)
    /\ phrase_i' = 1
    /\ pc' = "for_phrase"
    /\ UNCHANGED <<splitVars, images,
                   image_size, font, top, bottom, max_font_size,
                   min_font_size_single_line, max_text_len, top_font_size,
                   bottom_font_size, top_text_position, bottom_text_position,
                   which, o_text, m_text, m_font_size, m_width, iterations,
                   draws>>

\* l.153-154, l.165-168: the next phrase is handed to _maximize_font_size,
\* which starts at max_size and measures
MaximizeCall ==
    /\ pc = "for_phrase"
    /\ phrase_i <= Len(phrases)
    /\ m_text' = phrases[phrase_i]
    /\ m_font_size' = max_text_len
    /\ m_width' = getsize(font, phrases[phrase_i], max_text_len)
    /\ iterations' = 0
    /\ pc' = "while"
    /\ UNCHANGED <<splitVars, images,
                   image_size, font, top, bottom, max_font_size,
                   min_font_size_single_line, max_text_len, top_font_size,
                   bottom_font_size, top_text_position, bottom_text_position,
                   which, o_text, phrases, phrase_i, o_font_size, draws>>

\* l.169-172: one pass through the while body
MaximizeDecrement ==
    /\ pc = "while"
    /\ WhileCondition(m_width, max_text_len, m_font_size)
    /\ m_font_size' = m_font_size - 1
    /\ m_width' = getsize(font, m_text, m_font_size - 1)
    /\ iterations' = iterations + 1
    /\ UNCHANGED <<splitVars, images,
                   pc, image_size, font, top, bottom, max_font_size,
                   min_font_size_single_line, max_text_len, top_font_size,
                   bottom_font_size, top_text_position, bottom_text_position,
                   which, o_text, phrases, phrase_i, o_font_size, m_text,
                   draws>>

\* l.174: the loop is over, m_font_size is returned
MaximizeReturn ==
    /\ pc = "while"
    /\ ~WhileCondition(m_width, max_text_len, m_font_size)
    /\ pc' = "maximized"
    /\ UNCHANGED <<splitVars, images,
                   image_size, font, top, bottom, max_font_size,
                   min_font_size_single_line, max_text_len, top_font_size,
                   bottom_font_size, top_text_position, bottom_text_position,
                   which, o_text, phrases, phrase_i, o_font_size, m_text,
                   m_font_size, m_width, iterations, draws>>

\* a variant that keeps the larger of the two sizes
OptimizeTakeMax ==
    /\ pc = "maximized"
    /\ o_font_size' = Max2(m_font_size, o_font_size)
    /\ phrase_i' = phrase_i + 1
    /\ pc' = "for_phrase"
    /\ UNCHANGED <<splitVars, images,
                   image_size, font, top, bottom, max_font_size,
                   min_font_size_single_line, max_text_len, top_font_size,
                   bottom_font_size, top_text_position, bottom_text_position,
                   which, o_text, phrases, m_text, m_font_size, m_width,
                   iterations, draws>>

\* l.154-155: font_size = min(returned size, font_size)
OptimizeTakeMin ==
    /\ pc = "maximized"
    /\ o_font_size' = Min2(m_font_size, o_font_size)
    /\ phrase_i' = phrase_i + 1
    /\ pc' = "for_phrase"
    /\ UNCHANGED <<splitVars, images,
                   image_size, font, top, bottom, max_font_size,
                   min_font_size_single_line, max_text_len, top_font_size,
                   bottom_font_size, top_text_position, bottom_text_position,
                   which, o_text, phrases, m_text, m_font_size, m_width,
                   iterations, draws>>

\* l.158-160: the for loop is over; the text is rebuilt and
\* (font_size, text) returned
OptimizeReturn ==
    /\ pc = "for_phrase"
    /\ phrase_i > Len(phrases)
    /\ o_text' = Join("\n", phrases)
    /\ pc' = "optimized"
    /\ UNCHANGED <<splitVars, images,
                   image_size, font, top, bottom, max_font_size,
                   min_font_size_single_line, max_text_len, top_font_size,
                   bottom_font_size, top_text_position, bottom_text_position,
                   which, phrases, phrase_i, o_font_size, m_text, m_font_size,
                   m_width, iterations, draws>>

\* l.92-94: top_font_size, top = ...; then the call for bottom (l.95)
GenerateAssignTop ==
    /\ pc = "optimized"
    /\ which = "top"
    /\ top_font_size' = o_font_size
    /\ top' = o_text
    /\ which' = "bottom"
    /\ o_text' = bottom
    /\ pc' = "optimize"
    /\ UNCHANGED <<splitVars, images,
                   image_size, font, bottom, max_font_size,
                   min_font_size_single_line, max_text_len, bottom_font_size,
                   top_text_position, bottom_text_position, phrases, phrase_i,
                   o_font_size, m_text, m_font_size, m_width, iterations,
                   draws>>

\* l.95-97: bottom_font_size, bottom = ...
GenerateAssignBottom ==
    /\ pc = "optimized"
    /\ which = "bottom"
    /\ bottom_font_size' = o_font_size
    /\ bottom' = o_text
    /\ pc' = "layout"
    /\ UNCHANGED <<splitVars, images,
                   image_size, font, top, max_font_size,
                   min_font_size_single_line, max_text_len, top_font_size,
                   top_text_position, bottom_text_position, which, o_text,
                   phrases, phrase_i, o_font_size, m_text, m_font_size,
                   m_width, iterations, draws>>

\* l.99-113: the two fonts, the two text blocks and their positions
GeneratePositions ==
    /\ pc = "layout"
    /\ LET top_text_size == multiline_textsize(font, top, top_font_size)
           bottom_text_size ==
               multiline_textsize(font, bottom, bottom_font_size)
       IN  /\ top_text_position' =
                 <<(PosUnits \div 2) * (image_size[1] - top_text_size[1]), 0>>
           /\ bottom_text_position' =
                 <<(PosUnits \div 2) * (image_size[1] - bottom_text_size[1]),
                   PosUnits * image_size[2] - 7 * bottom_text_size[2]>>
    /\ pc' = "draw_top"
    /\ UNCHANGED <<splitVars, images,
                   image_size, font, top, bottom, max_font_size,
                   min_font_size_single_line, max_text_len, top_font_size,
                   bottom_font_size, which, o_text, phrases, phrase_i,
                   o_font_size, m_text, m_font_size, m_width, iterations,
                   draws>>

\* l.115-116
GenerateDrawTop ==
    /\ pc = "draw_top"
    /\ draws' = draws \o
          _draw_outlined_text("top", top_text_position, top, top_font_size)
    /\ pc' = "draw_bottom"
    /\ UNCHANGED <<splitVars, images,
                   image_size, font, top, bottom, max_font_size,
                   min_font_size_single_line, max_text_len, top_font_size,
                   bottom_font_size, top_text_position, bottom_text_position,
                   which, o_text, phrases, phrase_i, o_font_size, m_text,
                   m_font_size, m_width, iterations>>

\* l.117-120
GenerateDrawBottom ==
    /\ pc = "draw_bottom"
    /\ draws' = draws \o
          _draw_outlined_text("bottom", bottom_text_position, bottom,
                              bottom_font_size)
    /\ pc' = "done"
    /\ UNCHANGED <<splitVars, images,
                   image_size, font, top, bottom, max_font_size,
                   min_font_size_single_line, max_text_len, top_font_size,
                   bottom_font_size, top_text_position, bottom_text_position,
                   which, o_text, phrases, phrase_i, o_font_size, m_text,
                   m_font_size, m_width, iterations>>

\* ImageFont.truetype is about to be given a size below 1 (l.144, l.167,
\* l.99-100).  What happens then is the imaging library's: it raises, and
\* the render is abandoned, or it goes on with PixelSize (the actions
\* above).  Both are possible.
TruetypeRaises ==
    /\ \/ pc = "optimize" /\ min_font_size_single_line < 1
       \/ pc = "for_phrase" /\ phrase_i <= Len(phrases) /\ max_text_len < 1
       \/ pc = "layout" /\ (top_font_size < 1 \/ bottom_font_size < 1)
    /\ pc' = "error"
    /\ UNCHANGED <<splitVars, images,
                   image_size, font, top, bottom, max_font_size,
                   min_font_size_single_line, max_text_len, top_font_size,
                   bottom_font_size, top_text_position, bottom_text_position,
                   which, o_text, phrases, phrase_i, o_font_size, m_text,
                   m_font_size, m_width, iterations, draws>>

(***************************************************************************)
(* _split called on its own, on every string over SplitAlphabet.           *)
(***************************************************************************)
SplitAlphabet == {"a", "b", " "}

SplitIdle ==
    /\ s_text = <<>>
    /\ s_result = <<>>
    /\ s_pc = "idle"

SplitCall ==
    /\ s_pc = "call"
    /\ s_result' = _split(s_text)
    /\ s_pc' = "returned"
    /\ UNCHANGED <<s_text, renderVars, images>>

(***************************************************************************)
(* Image (l.11-42).  A Python value is None, a string or an integer.       *)
(***************************************************************************)
None == [t |-> "none", v |-> <<>>]

PyText(chars) == [t |-> "str", v |-> chars]

PyInt(n) == [t |-> "int", v |-> <<n>>]

\* bool(value)
Truthy(value) ==
    CASE value.t = "none" -> FALSE
      [] value.t = "str" -> value.v # <<>>
      [] value.t = "int" -> value.v # <<0>>

Digit(d) == <<"0", "1", "2", "3", "4", "5", "6", "7", "8", "9">>[d + 1]

RECURSIVE Decimal(_)
Decimal(n) ==
    IF n < 10 THEN <<Digit(n)>> ELSE Decimal(n \div 10) \o <<Digit(n % 10)>>

\* str(value)
PyStr(value) ==
    CASE value.t = "none" -> <<"N", "o", "n", "e">>
      [] value.t = "str" -> value.v
      [] value.t = "int" ->
            IF value.v[1] < 0 THEN <<"-">> \o Decimal(-value.v[1])
            ELSE Decimal(value.v[1])

\* value or ""
OrEmpty(value) == IF Truthy(value) THEN value ELSE PyText(<<>>)

\* hashlib.md5(data).hexdigest().  The digest is kept symbolic: a different
\* input gives a different digest (no collision is modelled).
Md5Hex(data) == <<"m", "d", "5", "(">> \o data \o <<")">>

RECURSIVE Updates(_)
\* l.40-41: the bytes given to sha.update, one value after the other
Updates(values) ==
    IF values = <<>> THEN <<>>
    ELSE PyStr(OrEmpty(Head(values))) \o Updates(Tail(values))

\* a variant that leaves the last value out of the digest
HashWithoutLast(values) == Md5Hex(Updates(SubSeq(values, 1, Len(values) - 1)))

\* l.37-42: Image.hash
Hash(values) == Md5Hex(Updates(values))

\* os.path.join of non-empty relative components
PathJoin(parts) ==
    IF Len(parts) = 1 THEN parts[1]
    ELSE parts[1] \o <<"/">> \o parts[2] \o <<"/">> \o parts[3]

\* l.24-35: Image.path
Path(img) ==
    IF ~Truthy(img.root) THEN None
    ELSE LET base == PathJoin(<<img.root.v, img.key, img.text_path>>)
         IN  IF \/ Truthy(img.style) \/ Truthy(img.font)
                \/ Truthy(img.width) \/ Truthy(img.height)
             THEN PyText(base \o <<"#">>
                      \o Hash(<<img.style, img.font, img.width, img.height>>)
                      \o <<".", "i", "m", "g">>)
             ELSE PyText(base \o <<".", "i", "m", "g">>)

ImageIds == {"one", "two"}

Roots == {None, PyText(<<"r">>)}

Styles == {None, PyText(<<>>), PyText(<<"a">>), PyText(<<"b">>)}

FontKeys == {None, PyText(<<"f">>)}

\* the size argument: None, or a dict whose 'width' and 'height' may be missing
Sizes ==
    {None} \cup {[t |-> "dict", width |-> w, height |-> h] :
                    w \in {None, PyInt(0), PyInt(1)}, h \in {None, PyInt(1)}}

NoImage ==
    [state |-> "none", root |-> None, key |-> <<>>, text_path |-> <<>>,
     style |-> None, font |-> None, width |-> None, height |-> None,
     path |-> None]

PathIdle == images = [i \in ImageIds |-> NoImage]

\* l.14-22: Image(template, text, root, style, font, size)
ImageInit(i, root, style, f, size) ==
    /\ images[i].state = "none"
    /\ images' = [images EXCEPT ![i] =
          [state |-> "new", root |-> root, key |-> <<"k">>,
           text_path |-> <<"t">>, style |-> style, font |-> f,
           width |-> IF size.t = "dict" THEN size.width ELSE None,
           height |-> IF size.t = "dict" THEN size.height ELSE None,
           path |-> None]]
    /\ UNCHANGED <<splitVars, renderVars>>

\* l.24-35: image.path is read
ImagePath(i) ==
    /\ images[i].state = "new"
    /\ images' = [images EXCEPT ![i].state = "read",
                                ![i].path = Path(images[i])]
    /\ UNCHANGED <<splitVars, renderVars>>

(***************************************************************************)
(* The specifications.                                                     *)
(***************************************************************************)
Init ==
    /\ pc = "generate"
    /\ image_size \in Geometries
    /\ font \in Fonts
    /\ top \in Captions
    /\ bottom \in Captions
    /\ max_font_size = 0
    /\ min_font_size_single_line = 0
    /\ max_text_len = 0
    /\ top_font_size = 0
    /\ bottom_font_size = 0
    /\ top_text_position = <<0, 0>>
    /\ bottom_text_position = <<0, 0>>
    /\ which = "top"
    /\ o_text = <<>>
    /\ phrases = <<>>
    /\ phrase_i = 0
    /\ o_font_size = 0
    /\ m_text = <<>>
    /\ m_font_size = 0
    /\ m_width = 0
    /\ iterations = 0
    /\ draws = <<>>
    /\ SplitIdle
    /\ PathIdle

Next ==
    \/ GenerateLimits
    \/ OptimizeSplit
    \/ MaximizeCall
    \/ MaximizeDecrement
    \/ MaximizeReturn
    \/ OptimizeTakeMin
    \/ OptimizeReturn
    \/ GenerateAssignTop
    \/ GenerateAssignBottom
    \/ GeneratePositions
    \/ GenerateDrawTop
    \/ GenerateDrawBottom
    \/ TruetypeRaises

Spec == Init /\ [][Next]_vars

InitSplit ==
    /\ s_text \in StringsUpTo(SplitAlphabet, MaxSplitLen)
    /\ s_result = <<>>
    /\ s_pc = "call"
    /\ RenderIdle
    /\ PathIdle

NextSplit == SplitCall

SpecSplit == InitSplit /\ [][NextSplit]_vars

InitPath ==
    /\ PathIdle
    /\ SplitIdle
    /\ RenderIdle

NextPath ==
    \/ \E i \in ImageIds, root \in Roots, style \in Styles,
          f \in FontKeys, size \in Sizes :
             ImageInit(i, root, style, f, size)
    \/ \E i \in ImageIds : ImagePath(i)

SpecPath == InitPath /\ [][NextPath]_vars

(***************************************************************************)
(* _split: claims C1 and C10, under SpecSplit.                             *)
(***************************************************************************)
\* the 0-based indices of the spaces of text
SpacesOf(text) == {j \in 0..(Len(text) - 1) : text[j + 1] = " "}

\* j is at least as close to the midpoint len(text) // 2 as every space
Closest(text, j) ==
    \A k \in SpacesOf(text) :
        Abs(j - (Len(text) \div 2)) <= Abs(k - (Len(text) \div 2))

\* C1: _split(text) is (text,) when len(text) < 3 or no space lies strictly
\* between the first and the last character; otherwise it is
\* (text[:j], text[j+1:]) for the leftmost j among the spaces closest to
\* len(text) // 2.  The result never has more than two elements.
C1_SplitContract ==
    s_pc = "returned" =>
        LET n == Len(s_text)
        IN  /\ Len(s_result) <= 2
            /\ IF n < 3 \/ ~(\E j \in 1..(n - 2) : s_text[j + 1] = " ")
               THEN s_result = <<s_text>>
               ELSE \E j \in SpacesOf(s_text) :
                      /\ Closest(s_text, j)
                      /\ \A k \in SpacesOf(s_text) :
                            Closest(s_text, k) => j <= k
                      /\ s_result = <<SubSeq(s_text, 1, j),
                                      SubSeq(s_text, j + 2, n)>>

\* a text was split that has two spaces equally close to its midpoint
C1_Witness ==
    /\ s_pc = "returned"
    /\ Len(s_result) = 2
    /\ \E j, k \in SpacesOf(s_text) :
          j # k /\ Closest(s_text, j) /\ Closest(s_text, k)

\* C10: whenever _split(text) returns two lines (a, b), both are non-empty
\* and a + ' ' + b == text: a leading or trailing space is never the split
\* point and nothing but the chosen space is lost.
C10_SplitRoundTrip ==
    (s_pc = "returned" /\ Len(s_result) = 2) =>
        /\ s_result[1] # <<>>
        /\ s_result[2] # <<>>
        /\ s_result[1] \o <<" ">> \o s_result[2] = s_text

\* a text with a leading and a trailing space was split, and the trailing
\* space is as close to the midpoint as the chosen one
C10_Witness ==
    /\ s_pc = "returned"
    /\ Len(s_result) = 2
    /\ s_text[1] = " "
    /\ s_text[Len(s_text)] = " "
    /\ Closest(s_text, Len(s_text) - 1)

(***************************************************************************)
(* The font-size search: claims C2, C3, C4, C5, C6 and C9, under Spec.     *)
(***************************************************************************)
\* the caption _optimize_font_size was called with (top and bottom are
\* rebound only after it returns)
Caption == IF which = "top" THEN top ELSE bottom

\* no font size below 1 is requested on this image: neither at l.144
\* nor at l.167
PositiveSizes == min_font_size_single_line >= 1 /\ max_text_len >= 1

\* C2: the value returned by _maximize_font_size is never outside
\* [1, max_font_size].  Stated for the images on which every requested font
\* size is at least 1; it fails there already.
C2_MaximizeWithinCeiling ==
    (pc = "maximized" /\ PositiveSizes) =>
        (1 <= m_font_size /\ m_font_size <= max_font_size)

\* C3: _maximize_font_size returns a size at which the text is no wider
\* than max_pixel_width, or 1 if no size of its search range is.
C3_MaximizeFitsOrOne ==
    pc = "maximized" =>
        \/ getsize(font, m_text, m_font_size) <= max_text_len
        \/ /\ m_font_size = 1
           /\ \A size \in 1..max_text_len :
                 getsize(font, m_text, size) > max_text_len

\* C4: _optimize_font_size returns a positive size, at most
\* max_font_size // len(phrases), at which every phrase is no wider than
\* max_line_pixel_width unless the size is 1; the text returned is the
\* phrases joined by a line break, in order.
C4_OptimizeContract ==
    pc = "optimized" =>
        /\ o_font_size >= 1
        /\ o_font_size <= max_font_size \div Len(phrases)
        /\ \/ o_font_size = 1
           \/ \A k \in DOMAIN phrases :
                 getsize(font, phrases[k], o_font_size) <= max_text_len
        /\ o_text = Join("\n", phrases)

\* C5: a caption no wider than max_line_pixel_width at max_font_size is
\* left unsplit and gets exactly max_font_size.  Stated for the images on
\* which every requested font size is at least 1; it fails there already.
C5_FitsAtCeiling ==
    (/\ pc = "optimized"
     /\ PositiveSizes
     /\ getsize(font, Caption, max_font_size) <= max_text_len) =>
        (phrases = <<Caption>> /\ o_font_size = max_font_size)

\* C6 as stated: for a caption split in two, the chosen size is at most
\* min(max_font_size // 2, _maximize_font_size(text, max_line_pixel_width)).
C6_AtMostUnsplit ==
    (pc = "optimized" /\ Len(phrases) = 2) =>
        o_font_size <= Min2(max_font_size \div 2,
                            _maximize_font_size(font, Caption, max_text_len))

\* C6, amended: for a caption split in two, the chosen size is
\* min(max_font_size // 2, size of the first phrase, size of the second),
\* each found by _maximize_font_size: at most max_font_size // 2, and at
\* least (not at most) what the unsplit text would get under that ceiling.
C6_MinOverPhrases ==
    (pc = "optimized" /\ Len(phrases) = 2) =>
        /\ o_font_size =
              Min2(max_font_size \div 2,
                   Min2(_maximize_font_size(font, phrases[1], max_text_len),
                        _maximize_font_size(font, phrases[2], max_text_len)))
        /\ o_font_size <= max_font_size \div 2
        /\ o_font_size >=
              Min2(max_font_size \div 2,
                   _maximize_font_size(font, Caption, max_text_len))

\* a caption was split in two and its size is above the one the unsplit
\* text would get
C6_Witness ==
    /\ pc = "optimized"
    /\ Len(phrases) = 2
    /\ PositiveSizes
    /\ o_font_size > _maximize_font_size(font, Caption, max_text_len)

\* C9: the search of _maximize_font_size ends after at most max_font_size
\* passes through its loop.  Stated for the images on which every requested
\* font size is at least 1; it fails there already.
C9_AtMostCeilingIterations ==
    (pc = "maximized" /\ PositiveSizes) => iterations <= max_font_size

(***************************************************************************)
(* _draw_outlined_text: claim C8, under Spec.                              *)
(***************************************************************************)
\* the draws made for one caption, in order
DrawsOf(caption) == SelectSeq(draws, LAMBDA d : d.caption = caption)

\* the draws of one caption are (2t+1)^2 black ones, one at each offset of
\* [-t, t] x [-t, t] around position, then a single white one at position
OutlinedAt(caption, position, font_size) ==
    LET t == IF font_size \div 25 > 1 THEN font_size \div 25 ELSE 1
        n == (2 * t + 1) * (2 * t + 1)
        seq == DrawsOf(caption)
    IN  /\ Len(seq) = n + 1
        /\ \A k \in 1..n : seq[k].fill = "black"
        /\ \A dx \in (-t)..t, dy \in (-t)..t :
              Cardinality({k \in 1..n :
                  seq[k].pos = <<position[1] + 6 * dx,
                                 position[2] + 6 * dy>>}) = 1
        /\ seq[n + 1].fill = "white"
        /\ seq[n + 1].pos = position
        /\ t = 1 => Cardinality({k \in DOMAIN seq : seq[k].fill = "black"}) = 9

\* C8: _draw_outlined_text with thickness t = max(1, font_size // 25) makes
\* (2t+1)^2 black draws, one at each offset (x+dx, y+dy) with dx, dy in
\* [-t, t], then one white draw at (x, y), after every black one; 9 black
\* draws for t = 1 whatever the caption.  Every draw of the top caption
\* precedes every draw of the bottom caption.
C8_OutlineThenFill ==
    /\ pc \in {"draw_bottom", "done"} =>
          OutlinedAt("top", top_text_position, top_font_size)
    /\ pc = "done" =>
          OutlinedAt("bottom", bottom_text_position, bottom_font_size)
    /\ pc \notin {"draw_bottom", "done"} => draws = <<>>
    /\ pc = "draw_bottom" => DrawsOf("bottom") = <<>>
    /\ \A i, j \in DOMAIN draws :
          (draws[i].caption = "top" /\ draws[j].caption = "bottom") => i < j

\* both captions are drawn, the top one with thickness 2 and the bottom
\* one, a longer caption, with thickness 1
C8_Witness ==
    /\ pc = "done"
    /\ top_font_size \div 25 = 2
    /\ bottom_font_size \div 25 < 2
    /\ Len(bottom) > Len(top)
    /\ Len(top) > 0

(***************************************************************************)
(* Image.path: claim C7, under SpecPath.                                   *)
(***************************************************************************)
Overrides == {"style", "font", "width", "height"}

\* the path has been read on both objects
BothRead(i, j) == images[i].state = "read" /\ images[j].state = "read"

\* the two objects have the same root, template key and caption path
SameBase(i, j) ==
    /\ images[i].root = images[j].root
    /\ images[i].key = images[j].key
    /\ images[i].text_path = images[j].text_path

\* the two objects differ in override o and in no other
DifferOnlyIn(i, j, o) ==
    /\ SameBase(i, j)
    /\ images[i][o] # images[j][o]
    /\ \A other \in Overrides \ {o} : images[i][other] = images[j][other]

\* the path carries a '#digest' suffix
HasDigest(path) == path.t = "str" /\ "#" \in Range(path.v)

\* C7 as stated: identical values give identical paths; two objects that
\* differ in exactly one of style, font, width, height get different
\* paths; the '#digest' suffix is there exactly when one of the four
\* deviates from its default (None).  Stated for objects that have a root;
\* it fails there already.
C7_PathAsStated ==
    \A i, j \in ImageIds :
        (BothRead(i, j) /\ Truthy(images[i].root)) =>
            /\ (SameBase(i, j) /\ \A o \in Overrides :
                    images[i][o] = images[j][o])
                  => images[i].path = images[j].path
            /\ \A o \in Overrides :
                  DifferOnlyIn(i, j, o) => images[i].path # images[j].path
            /\ HasDigest(images[i].path) <=>
                  \E o \in Overrides : images[i][o] # None

\* C7, amended: identical values give identical paths.  Without a root
\* the path is None.  With a root, the '#digest' suffix is there exactly
\* when one of the four overrides is truthy (not None, '' or 0), and two
\* objects with the same root, template and caption that differ in exactly
\* one override get different paths exactly when str(value or "") differs
\* for that override: None, '' and 0 are one and the same.
C7_PathDeterministic ==
    \A i, j \in ImageIds :
        BothRead(i, j) =>
            /\ (SameBase(i, j) /\ \A o \in Overrides :
                    images[i][o] = images[j][o])
                  => images[i].path = images[j].path
            /\ ~Truthy(images[i].root) => images[i].path = None
            /\ Truthy(images[i].root) =>
                  /\ images[i].path.t = "str"
                  /\ HasDigest(images[i].path) <=>
                        \E o \in Overrides : Truthy(images[i][o])
            /\ \A o \in Overrides :
                  (DifferOnlyIn(i, j, o) /\ Truthy(images[i].root)) =>
                      (images[i].path # images[j].path <=>
                          PyStr(OrEmpty(images[i][o])) #
                              PyStr(OrEmpty(images[j][o])))

\* two objects under one root differ in their height only, and both paths
\* carry a digest
C7_Witness ==
    /\ BothRead("one", "two")
    /\ Truthy(images["one"].root)
    /\ DifferOnlyIn("one", "two", "height")
    /\ HasDigest(images["one"].path)
    /\ HasDigest(images["two"].path)
    /\ images["one"].path # images["two"].path

====
